---- MODULE Spec2Model ----
(***************************************************************************)
(* pybuild.py: a wrapper around pip that keeps the declared dependencies   *)
(* of pypackage.json installed in a virtual env, removes every other       *)
(* top-level package, and freezes the result into requirements.txt.        *)
(*                                                                         *)
(* One run of the program is one command (init, add, rm, sync).  A command *)
(* reads and writes pypackage.json and then runs sync_deps, a sequence of  *)
(* blocking pip calls.  Each pip call is one step of the model; every call *)
(* is recorded in the log `calls`.                                         *)
(***************************************************************************)
EXTENDS Integers, Sequences, FiniteSets, TLC

\* ------------------------------------------------------------------ bounds
MaxDeps == 2        \* longest "dependencies" list of pypackage.json
MaxArgs == 2        \* most package names on one command line
MaxUninstalls == 2  \* most pip uninstall calls followed in one run

\* --------------------------------------------------------------- the state
VARIABLES
    fileState,     \* pypackage.json: "missing", "invalid" or "ok"
    fileDeps,      \* its "dependencies" list
    requirements,  \* requirements.txt: [exists, pkgs]
    venv,          \* the virtual env directory exists
    env,           \* the distributions installed in it
    pc,            \* where the running command is
    cmd,           \* the command line: [name, args]
    argError,      \* the command printed an argument error
    deps,          \* config["dependencies"] in memory
    installed,     \* sync_deps: the last inspection
    to_install,    \* sync_deps: the install batch
    to_uninstall,  \* sync_deps: the uninstall batch
    calls,         \* the external commands run so far by this command
    loaded,        \* the dependencies as load_pypackagejson returned them
    env0,          \* the environment when the command started
    start,         \* the files when the command started
    entry          \* the dependencies when sync_deps was entered

vars == <<fileState, fileDeps, requirements, venv, env, pc, cmd, argError,
          deps, installed, to_install, to_uninstall, calls, loaded, env0, start, entry>>

\* ------------------------------------------------------------- the strings
\* str.lower() on the names of the model.
Lower(s) ==
    CASE s = "Flask" -> "flask"
      [] s = "Jinja2" -> "jinja2"
      [] s = "Setuptools" -> "setuptools"
      [] OTHER -> s

\* to_lowercase(list): every element replaced by its lower-case form.
to_lowercase(list) == [i \in DOMAIN list |-> Lower(list[i])]

ToSet(s) == {s[i] : i \in DOMAIN s}

\* Python's `x in list`.
In(x, list) == \E i \in DOMAIN list : list[i] = x

\* Names a pypackage.json may hold, and names a user may type.
DeclNames == {"flask", "Flask", "jinja2", "setuptools"}
ArgNames == {"flask", "Flask", "jinja2"}

SeqsUpTo(S, n) == UNION {[1..k -> S] : k \in 0..n}

\* ---------------------------------------------------- the package manager
\* Distributions, by the name their metadata carries, in the order
\* `pip list` prints them (sorted without regard to case).
PipOrder == <<"Flask", "Jinja2", "pip", "setuptools", "Setuptools">>
Dists == ToSet(PipOrder)

\* The name the package index gives the project `p` (p is lower case).
IndexName(p) ==
    CASE p = "flask" -> "Flask"
      [] p = "jinja2" -> "Jinja2"
      [] OTHER -> p

\* Requirements of a distribution, as project names.
Requires(d) == IF d = "Flask" THEN {"jinja2"} ELSE {}

\* An environment is a set of distributions, one per project at most.
WellFormed(e) == \A a, b \in e : Lower(a) = Lower(b) => a = b
Projects(e) == {Lower(d) : d \in e}

\* python3 -m venv: a fresh environment holds the bootstrap packages.
FreshVenv == {"pip", "setuptools"}

\* pip list --not-required: the distributions no installed one requires.
PipListNotRequired(e) ==
    SelectSeq(PipOrder,
              LAMBDA d : d \in e /\ \A o \in e : Lower(d) \notin Requires(o))

\* pip install: the named projects and what they require, where absent.
RECURSIVE Closure(_)
Closure(ps) ==
    LET more == ps \cup UNION {Requires(IndexName(p)) : p \in ps}
    IN  IF more = ps THEN ps ELSE Closure(more)

PipInstall(e, packages) ==
    e \cup {IndexName(p) : p \in Closure({Lower(n) : n \in ToSet(packages)})
                                  \ Projects(e)}

\* pip uninstall: the named projects only, whatever case they are named in.
PipUninstall(e, packages) ==
    {d \in e : Lower(d) \notin {Lower(n) : n \in ToSet(packages)}}

\* ------------------------------------------------------------- the program
\* pip_get_installed: the names pip lists, lower-cased; with
\* uninstall_base_packages the base packages are left out first.
base_packages == {"pip", "setuptools"}

\* (mutant) the flag is ignored: the base packages are always left out.
pip_get_installed_nobase(e, uninstall_base_packages) ==
    to_lowercase(SelectSeq(PipListNotRequired(e),
        LAMBDA x : x \notin {"pip", "setuptools"}))

pip_get_installed(e, uninstall_base_packages) ==
    to_lowercase(SelectSeq(PipListNotRequired(e),
        LAMBDA x : ~uninstall_base_packages \/ x \notin base_packages))

\* pip freeze: every installed distribution but pip's own tooling.
PipFreeze(e) == {d \in e : Lower(d) \notin {"pip", "setuptools"}}

\* (mutant) the return code is not looked at, as with can_fail=True.
run_can_fail(ok, next) == next

\* run(cmd): a command that returns non-zero ends the program (exit(-1)).
run(ok, next) == IF ok THEN next ELSE "exit"

\* sync_deps, install phase: the declared names the inspection lacks.
ToInstall(deps_, installed_) ==
    SelectSeq(deps_, LAMBDA p : ~In(p, installed_))

\* (mutant) nothing is filtered: every inspected name goes in the batch.
ToUninstallAll(deps_, installed_) == installed_

\* (mutant) the last inspected name is never looked at.
ToUninstallSkipLast(deps_, installed_) ==
    SelectSeq(SubSeq(installed_, 1, Len(installed_) - 1),
              LAMBDA p : ~In(p, deps_))

\* sync_deps, removal loop: the inspected names that are not declared.
ToUninstall(deps_, installed_) ==
    SelectSeq(installed_, LAMBDA p : ~In(p, deps_))

\* (mutant) the loop is also left when the batch is the one of the
\* iteration before (a progress check).
LoopBreaksNoProgress(to_uninstall_) ==
    Len(to_uninstall_) = 0 \/ to_uninstall_ = to_uninstall

\* (mutant) the break is missing.
LoopBreaksNever(to_uninstall_) == FALSE

\* (mutant) the loop is left after any inspection.
LoopBreaksAlways(to_uninstall_) == TRUE

\* sync_deps, the test that leaves the removal loop.
LoopBreaks(to_uninstall_) == Len(to_uninstall_) = 0

\* (mutant) each package appended without the membership test.
AddPackagesNoCheck(dependencies, packages) == dependencies \o packages

\* cmd_add: each package appended unless the list holds it already.
RECURSIVE AddPackages(_, _)
AddPackages(dependencies, packages) ==
    IF packages = <<>> THEN dependencies
    ELSE AddPackages(
            IF In(Head(packages), dependencies) THEN dependencies
            ELSE Append(dependencies, Head(packages)),
            Tail(packages))

\* (mutant) only the first package named is removed.
RmPackagesFirstOnly(dependencies, packages) ==
    SelectSeq(dependencies, LAMBDA p : packages = <<>> \/ p # Head(packages))

\* cmd_rm: the entries that are not among the packages.
RmPackages(dependencies, packages) ==
    SelectSeq(dependencies, LAMBDA p : ~In(p, packages))

\* DEFAULT_CONFIG["dependencies"]
DefaultDependencies == <<>>

\* pypackage.json and requirements.txt as they are on disk.
Files == [fileState |-> fileState, fileDeps |-> fileDeps,
          requirements |-> requirements]

Envs == {e \in SUBSET Dists : WellFormed(e) /\ "pip" \in e}

Call(op, args, excl, res, ok) ==
    [op |-> op, args |-> args, excl |-> excl, res |-> res, ok |-> ok]

Count(op) == Cardinality({i \in DOMAIN calls : calls[i].op = op})

Init ==
    /\ fileState \in {"missing", "invalid", "ok"}
    /\ fileDeps \in (IF fileState = "ok" THEN SeqsUpTo(DeclNames, MaxDeps)
                                          ELSE {<<>>})
    /\ requirements = [exists |-> FALSE, pkgs |-> {}]
    /\ venv \in BOOLEAN
    /\ env \in (IF venv THEN Envs ELSE {{}})
    /\ pc = "shell"
    /\ cmd = [name |-> "none", args |-> <<>>]
    /\ argError = FALSE
    /\ deps = <<>>
    /\ installed = <<>>
    /\ to_install = <<>>
    /\ to_uninstall = <<>>
    /\ calls = <<>>
    /\ loaded = <<>>
    /\ env0 = env
    /\ start = Files
    /\ entry = <<>>

\* main: a command starts as a new process.
Start(name, args) ==
    /\ pc = "shell"
    /\ cmd' = [name |-> name, args |-> args]
    /\ installed' = <<>>
    /\ to_install' = <<>>
    /\ to_uninstall' = <<>>
    /\ calls' = <<>>
    /\ env0' = env
    /\ start' = Files
    /\ UNCHANGED <<requirements, venv, env>>

\* (mutant) the error is printed and the command carries on, as cmd_sync does.
UsageContinues ==
    /\ argError' = TRUE
    /\ pc' = "ensure_venv"
    /\ deps' = fileDeps
    /\ loaded' = fileDeps
    /\ entry' = fileDeps
    /\ UNCHANGED <<fileState, fileDeps>>

\* exit(-1) before pypackage.json is read.
Usage ==
    /\ argError' = TRUE
    /\ pc' = "exit"
    /\ deps' = <<>>
    /\ loaded' = <<>>
    /\ entry' = <<>>
    /\ UNCHANGED <<fileState, fileDeps>>

\* load_pypackagejson fails: file not found, or invalid contents.
LoadFails ==
    /\ pc' = "exit"
    /\ deps' = <<>>
    /\ loaded' = <<>>
    /\ entry' = <<>>
    /\ UNCHANGED <<fileState, fileDeps>>

cmd_add(args) ==
    /\ Start("add", args)
    /\ IF Len(args) = 0 THEN Usage
       ELSE /\ argError' = FALSE
            /\ IF fileState # "ok" THEN LoadFails
               ELSE /\ loaded' = fileDeps
                    /\ deps' = AddPackages(fileDeps, to_lowercase(args))
                    /\ entry' = deps'
                    /\ Len(deps') <= MaxDeps
                    /\ fileDeps' = deps'
                    /\ fileState' = "ok"
                    /\ pc' = "ensure_venv"

cmd_rm(args) ==
    /\ Start("rm", args)
    /\ IF Len(args) = 0 THEN Usage
       ELSE /\ argError' = FALSE
            /\ IF fileState # "ok" THEN LoadFails
               ELSE /\ loaded' = fileDeps
                    /\ deps' = RmPackages(fileDeps, to_lowercase(args))
                    /\ entry' = deps'
                    /\ fileDeps' = deps'
                    /\ fileState' = "ok"
                    /\ pc' = "ensure_venv"

\* cmd_sync prints the error for extra options and carries on.
cmd_sync(args) ==
    /\ Start("sync", args)
    /\ argError' = (Len(args) # 0)
    /\ IF fileState # "ok" THEN LoadFails
       ELSE /\ loaded' = fileDeps
            /\ deps' = fileDeps
            /\ entry' = deps'
            /\ pc' = "ensure_venv"
            /\ UNCHANGED <<fileState, fileDeps>>

\* cmd_init writes DEFAULT_CONFIG unless pypackage.json exists, then loads.
cmd_init(args) ==
    /\ Start("init", args)
    /\ IF Len(args) # 1 THEN Usage
       ELSE /\ argError' = FALSE
            /\ IF fileState = "invalid" THEN LoadFails
               ELSE /\ fileState' = "ok"
                    /\ fileDeps' = IF fileState = "missing"
                                   THEN DefaultDependencies ELSE fileDeps
                    /\ loaded' = fileDeps'
                    /\ deps' = fileDeps'
                    /\ entry' = deps'
                    /\ pc' = "ensure_venv"

\* ensure_venv: python3 -m venv when the directory is missing.
ensure_venv ==
    /\ pc = "ensure_venv"
    /\ IF venv
       THEN /\ pc' = "inspect"
            /\ UNCHANGED <<venv, env, calls>>
       ELSE \E ok \in BOOLEAN :
            /\ calls' = Append(calls, Call("venv", <<>>, FALSE, <<>>, ok))
            /\ venv' = ok
            /\ env' = IF ok THEN FreshVenv ELSE env
            /\ pc' = run(ok, "inspect")
    /\ UNCHANGED <<fileState, fileDeps, requirements, cmd, argError, deps,
                   installed, to_install, to_uninstall, loaded, env0, start, entry>>

\* sync_deps, install phase: inspect with the base packages, diff.
first_inspect ==
    /\ pc = "inspect"
    /\ \E ok \in BOOLEAN :
        LET got == IF ok THEN pip_get_installed(env, FALSE) ELSE <<>>
            batch == IF ok THEN ToInstall(deps, got) ELSE <<>>
        IN  /\ calls' = Append(calls, Call("list", <<>>, FALSE, got, ok))
            /\ installed' = got
            /\ to_install' = batch
            /\ pc' = run(ok, IF Len(batch) > 0 THEN "install" ELSE "loop")
    /\ UNCHANGED <<fileState, fileDeps, requirements, venv, env, cmd,
                   argError, deps, to_uninstall, loaded, env0, start, entry>>

\* (mutant) the batch is built by filtering the declared list in place.
install_consuming ==
    /\ pc = "install"
    /\ \E ok \in BOOLEAN :
        /\ calls' = Append(calls, Call("install", to_install, FALSE, <<>>, ok))
        /\ env' = IF ok THEN PipInstall(env, to_install) ELSE env
        /\ pc' = run(ok, "loop")
    /\ deps' = to_install
    /\ UNCHANGED <<fileState, fileDeps, requirements, venv, cmd, argError,
                   installed, to_install, to_uninstall, loaded, env0, start,
                   entry>>

\* pip_install(config, to_install)
install ==
    /\ pc = "install"
    /\ \E ok \in BOOLEAN :
        /\ calls' = Append(calls, Call("install", to_install, FALSE, <<>>, ok))
        /\ env' = IF ok THEN PipInstall(env, to_install) ELSE env
        /\ pc' = run(ok, "loop")
    /\ UNCHANGED <<fileState, fileDeps, requirements, venv, cmd, argError,
                   deps, installed, to_install, to_uninstall, loaded, env0, start, entry>>

\* sync_deps, removal loop: inspect without the base packages, diff.
loop_inspect ==
    /\ pc = "loop"
    /\ \E ok \in BOOLEAN :
        LET got == IF ok THEN pip_get_installed(env, TRUE) ELSE <<>>
            batch == IF ok THEN ToUninstall(deps, got) ELSE <<>>
        IN  /\ calls' = Append(calls, Call("list", <<>>, TRUE, got, ok))
            /\ installed' = got
            /\ to_uninstall' = batch
            /\ pc' = run(ok, IF LoopBreaks(batch) THEN "freeze" ELSE "uninstall")
    /\ UNCHANGED <<fileState, fileDeps, requirements, venv, env, cmd,
                   argError, deps, to_install, loaded, env0, start, entry>>

\* pip_uninstall(config, to_uninstall).  pip asks before it removes; when
\* the answer is no it removes nothing and still returns 0.
uninstall_with(outcomes) ==
    /\ pc = "uninstall"
    /\ Count("uninstall") < MaxUninstalls
    /\ \E outcome \in outcomes :
        /\ calls' = Append(calls, Call("uninstall", to_uninstall, FALSE, <<>>,
                                       outcome # "failed"))
        /\ env' = IF outcome = "removed" THEN PipUninstall(env, to_uninstall)
                                         ELSE env
        /\ pc' = run(outcome # "failed", "loop")
    /\ UNCHANGED <<fileState, fileDeps, requirements, venv, cmd, argError,
                   deps, installed, to_install, to_uninstall, loaded, env0, start, entry>>

uninstall == uninstall_with({"removed", "kept", "failed"})

\* (mutant) requirements.txt is opened whatever pip freeze returned.
FreezeWritesAlways(ok) == TRUE

\* pip_freeze: run() exits on failure before requirements.txt is opened.
FreezeWrites(ok) == ok

\* pip_freeze: requirements.txt is written with what pip freeze printed.
freeze ==
    /\ pc = "freeze"
    /\ \E ok \in BOOLEAN :
        /\ calls' = Append(calls, Call("freeze", <<>>, FALSE, <<>>, ok))
        /\ requirements' = IF FreezeWrites(ok) THEN [exists |-> TRUE, pkgs |-> PipFreeze(env)]
                                 ELSE requirements
        /\ pc' = run(ok, "done")
    /\ UNCHANGED <<fileState, fileDeps, venv, env, cmd, argError, deps,
                   installed, to_install, to_uninstall, loaded, env0, start, entry>>

\* The process ends (sync_deps returned, or exit(-1)): its memory is gone,
\* the files and the environment stay.
terminate ==
    /\ pc \in {"done", "exit"}
    /\ pc' = "shell"
    /\ cmd' = [name |-> "none", args |-> <<>>]
    /\ argError' = FALSE
    /\ deps' = <<>>
    /\ installed' = <<>>
    /\ to_install' = <<>>
    /\ to_uninstall' = <<>>
    /\ calls' = <<>>
    /\ loaded' = <<>>
    /\ env0' = env
    /\ start' = Files
    /\ entry' = <<>>
    /\ UNCHANGED <<fileState, fileDeps, requirements, venv, env>>

\* Command lines: package names for add and rm, a directory for init.
PackageArgs == SeqsUpTo(ArgNames, MaxArgs)
OtherArgs == SeqsUpTo({".venv"}, MaxArgs)

Next ==
    \/ \E args \in OtherArgs : cmd_init(args)
    \/ \E args \in PackageArgs : cmd_add(args)
    \/ \E args \in PackageArgs : cmd_rm(args)
    \/ \E args \in OtherArgs : cmd_sync(args)
    \/ terminate
    \/ ensure_venv
    \/ first_inspect
    \/ install
    \/ loop_inspect
    \/ uninstall
    \/ freeze

Spec == Init /\ [][Next]_vars

\* ------------------------------------ one run, pip uninstall always removing
\* One `sync` in an environment where a pip uninstall that returns 0 has
\* removed every package it was given.  The calls are blocking and each
\* returns, so a run that can take a step takes it.
RunInit == Init /\ fileState = "ok"

uninstall_removing == uninstall_with({"removed", "failed"})

RunSteps ==
    \/ ensure_venv
    \/ first_inspect
    \/ install
    \/ loop_inspect
    \/ uninstall_removing
    \/ freeze

RunNext ==
    \/ \E args \in OtherArgs : cmd_sync(args)
    \/ RunSteps

RunSpec == RunInit /\ [][RunNext]_vars /\ WF_vars(RunSteps)

\* ------------------------------------------------ the dependency list alone
\* The list operations of cmd_add and cmd_rm applied one after the other to
\* a loaded list: add, then rm of the same names or the same add again.
DepInit == Init /\ fileState = "ok" /\ ~venv

DepFrame == UNCHANGED <<fileState, requirements, venv, env, argError,
                        installed, to_install, to_uninstall, calls, env0,
                        start, entry>>

dep_add(args) ==
    /\ pc = "shell"
    /\ Len(args) > 0
    /\ cmd' = [name |-> "add", args |-> args]
    /\ loaded' = fileDeps
    /\ deps' = AddPackages(fileDeps, to_lowercase(args))
    /\ fileDeps' = deps'
    /\ pc' = "added"
    /\ DepFrame

dep_rm ==
    /\ pc = "added"
    /\ cmd' = [name |-> "rm", args |-> cmd.args]
    /\ loaded' = fileDeps
    /\ deps' = RmPackages(fileDeps, to_lowercase(cmd.args))
    /\ fileDeps' = deps'
    /\ pc' = "removed"
    /\ DepFrame

dep_add_again ==
    /\ pc = "added"
    /\ cmd' = cmd
    /\ loaded' = fileDeps
    /\ deps' = AddPackages(fileDeps, to_lowercase(cmd.args))
    /\ fileDeps' = deps'
    /\ pc' = "added_again"
    /\ DepFrame

DepNext ==
    \/ \E args \in PackageArgs : dep_add(args)
    \/ dep_rm
    \/ dep_add_again

DepSpec == DepInit /\ [][DepNext]_vars

\* ---------------------------------------------------------- the call log
Idx(op) == {i \in DOMAIN calls : calls[i].op = op}
LastCall == calls[Len(calls)]
NoDuplicates(s) == \A i, j \in DOMAIN s : s[i] = s[j] => i = j
NoFoldedDuplicates(s) == \A i, j \in DOMAIN s : Lower(s[i]) = Lower(s[j]) => i = j
FirstIdx(s, x) == CHOOSE i \in DOMAIN s : s[i] = x /\ \A j \in 1..(i-1) : s[j] # x

\* The inspection of the install phase: the first pip list of the run.
FirstInspection ==
    calls[CHOOSE i \in Idx("list") : \A j \in Idx("list") : i <= j]

\* sync_deps has been entered by the running command.
InSync == pc \in {"ensure_venv", "inspect", "install", "loop", "uninstall",
                  "freeze", "done"} \/ (pc = "exit" /\ Len(calls) > 0)

\* ------------------------------------------------------------------- C1
\* Declared names in lower case, none of them a base package.
PlainDeclared == \A d \in ToSet(deps) : Lower(d) = d /\ d \notin base_packages

\* C1 (as stated, for declared sets of lower-case names without base
\* packages): when sync_deps completes, the top-level packages the inspector
\* reports without the base packages are exactly the declared set.
C1_InstalledEqualsDeclared ==
    (pc = "done" /\ PlainDeclared) =>
        ToSet(pip_get_installed(env, TRUE)) = ToSet(deps)

\* C1 (amended): when sync_deps completes, every name the inspector
\* reports without the base packages (top-level, lower-cased) is a declared
\* name.
C1_InstalledWithinDeclared ==
    pc = "done" => ToSet(pip_get_installed(env, TRUE)) \subseteq ToSet(deps)

C1_Witness ==
    /\ pc = "done"
    /\ Idx("install") # {}
    /\ Cardinality(Idx("uninstall")) >= 2
    /\ pip_get_installed(env, TRUE) # <<>>

\* ------------------------------------------------------------------- C2
\* C2: a failed external call is the last call of the run and the program
\* has exited: nothing is retried and no call of any kind follows it.
C2_FailureAborts ==
    \A i \in DOMAIN calls :
        ~calls[i].ok => /\ i = Len(calls)
                        /\ pc = "exit"

C2_Witness ==
    /\ pc = "exit"
    /\ Len(calls) >= 2
    /\ LastCall.op = "install"
    /\ ~LastCall.ok
    /\ pip_get_installed(env, TRUE) # <<>>

\* ------------------------------------------------------------------- C3
\* The top-level distributions installed when the command started, base
\* packages aside, are the declared names, letter for letter.
StartsInSync ==
    {d \in ToSet(PipListNotRequired(env0)) : Lower(d) \notin base_packages}
        = ToSet(deps)

\* C3: a run that starts with the installed set equal to the declared set
\* never reaches an install or uninstall call, and when it completes its
\* last call is the snapshot, written to requirements.txt.
C3_NoOpWhenInSync ==
    (InSync /\ StartsInSync) =>
        /\ pc \notin {"install", "uninstall"}
        /\ Idx("install") = {}
        /\ Idx("uninstall") = {}
        /\ pc = "done" => /\ LastCall.op = "freeze"
                          /\ LastCall.ok
                          /\ requirements = [exists |-> TRUE,
                                             pkgs |-> PipFreeze(env)]

\* ------------------------------------------------------------------- C4
\* C4: no uninstall batch holds a name whose lower-case form is pip or
\* setuptools.
C4_BaseNeverUninstalled ==
    \A i \in Idx("uninstall") :
        \A n \in ToSet(calls[i].args) : Lower(n) \notin base_packages

\* ------------------------------------------------------------------- C5
\* C5: a declared name whose lower-case form the first inspection holds is
\* not in the install batch, and no uninstall batch holds the lower-case
\* form of a declared name.
C5_CaseFoldedComparison ==
    /\ \A i \in Idx("install") :
         \A n \in ToSet(calls[i].args) : ~In(Lower(n), FirstInspection.res)
    /\ \A i \in Idx("uninstall") :
         \A n \in ToSet(calls[i].args) :
            \A d \in ToSet(deps) : Lower(d) # Lower(n)

\* ------------------------------------------------------------------- C6
\* C6: a run holds at most one install call; it directly follows the first
\* inspection, which lists the base packages too; its batch is not empty
\* and is the declared names that inspection lacks, in declared order; and
\* every uninstall call comes after it.
C6_InstallOnceFirst ==
    /\ Cardinality(Idx("install")) <= 1
    /\ \A i \in Idx("install") :
        /\ i >= 2
        /\ calls[i-1] = FirstInspection
        /\ calls[i-1].ok
        /\ ~calls[i-1].excl
        /\ In("pip", calls[i-1].res)
        /\ calls[i].args # <<>>
        /\ calls[i].args =
             SelectSeq(deps, LAMBDA p : p \notin ToSet(calls[i-1].res))
        /\ \A j \in Idx("uninstall") : j > i
    /\ pc = "install" => to_install # <<>>

C6_Witness ==
    /\ Idx("install") # {}
    /\ Idx("uninstall") # {}
    /\ \E i \in Idx("install") :
        /\ Len(calls[i].args) < Len(deps)
        /\ calls[i].ok

\* ------------------------------------------------------------------- C7
\* C7: a run holds at most one snapshot call and a completed run exactly
\* one; it is the last call of the run, it directly follows an inspection
\* of the removal loop that reported declared names only, and a completed
\* run has written requirements.txt.
C7_SnapshotOnceLast ==
    /\ Cardinality(Idx("freeze")) <= 1
    /\ \A i \in Idx("freeze") :
        /\ i = Len(calls)
        /\ i >= 2
        /\ calls[i-1].op = "list"
        /\ calls[i-1].excl
        /\ calls[i-1].ok
        /\ \A x \in ToSet(calls[i-1].res) : In(x, deps)
        /\ \A j \in Idx("install") \cup Idx("uninstall") : j < i
    /\ pc = "done" => /\ Cardinality(Idx("freeze")) = 1
                      /\ LastCall.ok
                      /\ requirements.exists
    /\ (requirements.exists /\ pc \notin {"done", "shell"}) =>
            \A i \in Idx("freeze") : ~calls[i].ok

C7_Witness ==
    /\ pc = "done"
    /\ Idx("install") # {}
    /\ Cardinality(Idx("uninstall")) >= 2

\* ------------------------------------------------------------------- C8
\* cmd_add has loaded, extended and saved the dependencies.
Added == cmd.name = "add" /\ Len(cmd.args) > 0 /\ fileState = "ok"

\* C8: after add the list starts with the loaded list unchanged, holds as
\* a set the loaded names and the lower-cased arguments, and the appended
\* part holds no name of the loaded list, no name twice, and keeps the
\* order in which the arguments first name them; that list is saved.
C8_AddIsOrderedUnion ==
    Added =>
        LET new == to_lowercase(cmd.args)
            tail == SubSeq(deps, Len(loaded) + 1, Len(deps))
        IN  /\ Len(deps) >= Len(loaded)
            /\ SubSeq(deps, 1, Len(loaded)) = loaded
            /\ ToSet(deps) = ToSet(loaded) \cup ToSet(new)
            /\ NoDuplicates(tail)
            /\ ToSet(tail) \cap ToSet(loaded) = {}
            /\ \A a, b \in DOMAIN tail :
                 a < b => FirstIdx(new, tail[a]) < FirstIdx(new, tail[b])
            /\ fileDeps = deps

C8_Witness ==
    /\ Added
    /\ loaded # <<>>
    /\ Len(deps) > Len(loaded)
    /\ \E i \in DOMAIN cmd.args :
        /\ cmd.args[i] # Lower(cmd.args[i])
        /\ In(Lower(cmd.args[i]), loaded)

\* ------------------------------------------------------------------- C9
\* cmd_rm has loaded, filtered and saved the dependencies.
Removed == cmd.name = "rm" /\ Len(cmd.args) > 0 /\ fileState = "ok"

\* C9: after rm the list is the loaded list without the entries whose
\* lower-case form is the lower-case form of an argument, the others in
\* their order.
C9_RmByFoldedName ==
    Removed =>
        deps = SelectSeq(loaded, LAMBDA p :
                    Lower(p) \notin {Lower(n) : n \in ToSet(cmd.args)})

\* ------------------------------------------------------------------ C10
\* C10: when the loaded list holds no two entries equal in lower case, the
\* list add or rm saves holds none either.
C10_NoFoldedDuplicates ==
    ((Added \/ Removed) /\ NoFoldedDuplicates(loaded)) =>
        /\ NoFoldedDuplicates(deps)
        /\ NoFoldedDuplicates(fileDeps)

\* ------------------------------------------------------------------ C11
\* No argument equals, in lower case, an entry of the list first loaded.
NamesAbsent ==
    \A n \in ToSet(cmd.args) :
        \A d \in ToSet(start.fileDeps) : Lower(n) # Lower(d)

\* C11: add of names absent from the list, then rm of the same names,
\* leaves the list as it was first loaded, entry for entry.
C11_AddThenRmRestores ==
    (pc = "removed" /\ NamesAbsent) =>
        /\ deps = start.fileDeps
        /\ fileDeps = start.fileDeps

C11_Witness ==
    /\ pc = "removed"
    /\ NamesAbsent
    /\ Len(start.fileDeps) = 2
    /\ Len(cmd.args) = 2
    /\ Len(loaded) > Len(start.fileDeps)
    /\ \E i \in DOMAIN cmd.args : cmd.args[i] # Lower(cmd.args[i])

\* ------------------------------------------------------------------ C12
\* normalize: lower case, duplicates dropped, first-seen order kept.
Normalize(names) == AddPackages(<<>>, to_lowercase(names))

\* C12: normalizing a normalized sequence changes nothing, and the same add
\* a second time leaves the list as the first add saved it.
C12_NormalizeIdempotent ==
    /\ pc # "shell" => Normalize(Normalize(cmd.args)) = Normalize(cmd.args)
    /\ pc = "added_again" => /\ deps = loaded
                             /\ fileDeps = loaded

C12_Witness ==
    /\ pc = "added_again"
    /\ Len(loaded) > Len(start.fileDeps)
    /\ Len(Normalize(cmd.args)) < Len(cmd.args)
    /\ Normalize(cmd.args) # cmd.args

\* ------------------------------------------------------------------ C13
\* The top-level distributions that are not base packages.
TopLevelOthers(e) ==
    {d \in ToSet(PipListNotRequired(e)) : Lower(d) \notin base_packages}

\* C13: with nothing declared a run never reaches the install call, and
\* once the removal loop is left for the snapshot the environment holds no
\* top-level package other than base packages.
C13_EmptyDeclared ==
    (InSync /\ deps = <<>>) =>
        /\ pc # "install"
        /\ Idx("install") = {}
        /\ (pc \in {"freeze", "done"} \/ Idx("freeze") # {}) =>
                TopLevelOthers(env) = {}

C13_Witness ==
    /\ pc = "done"
    /\ deps = <<>>
    /\ Cardinality(Idx("uninstall")) >= 2
    /\ {"Flask", "Jinja2"} \subseteq env0

\* ------------------------------------------------------------------ C14
\* add or rm was called without a package name.
EmptyNames == cmd.name \in {"add", "rm"} /\ Len(cmd.args) = 0

\* C14 (as stated): add and rm called with no names complete without an
\* error and leave the declared list unchanged.
C14_EmptyNamesSucceed ==
    EmptyNames => /\ ~argError
                  /\ pc # "exit"
                  /\ fileDeps = start.fileDeps

\* C14 (amended): add and rm called with no names report an argument error
\* and exit before pypackage.json is read: no external command is run and
\* both files stay as they were, the declared list unchanged.
C14_EmptyNamesRejected ==
    EmptyNames => /\ argError
                  /\ pc = "exit"
                  /\ calls = <<>>
                  /\ Files = start

C14_Witness ==
    /\ EmptyNames
    /\ pc = "exit"
    /\ cmd.name = "rm"
    /\ fileDeps # <<>>

\* ------------------------------------------------------------------ C15
\* C15: every uninstall call directly follows a successful inspection made
\* without the base packages; its batch is the names of that inspection
\* that are not declared, in the inspection's order, so it holds no
\* declared name; and the inspection a batch is computed from is the
\* environment as it is then.
C15_UninstallFromFreshInspection ==
    /\ \A i \in Idx("uninstall") :
        /\ i >= 2
        /\ calls[i-1].op = "list"
        /\ calls[i-1].excl
        /\ calls[i-1].ok
        /\ calls[i].args =
             SelectSeq(calls[i-1].res, LAMBDA p : p \notin ToSet(deps))
        /\ \A n \in ToSet(calls[i].args) : n \notin ToSet(deps)
    /\ pc = "uninstall" =>
        /\ LastCall.op = "list"
        /\ LastCall.res = to_lowercase(SelectSeq(PipListNotRequired(env),
                                LAMBDA x : x \notin base_packages))
        /\ to_uninstall =
             SelectSeq(LastCall.res, LAMBDA p : p \notin ToSet(deps))

C15_Witness ==
    /\ Cardinality(Idx("uninstall")) >= 2
    /\ \E i, j \in Idx("uninstall") :
        /\ calls[i].args # calls[j].args
        /\ Len(calls[i].args) < Len(calls[i-1].res)

\* ------------------------------------------------------------------ C16
\* C16: when pip uninstall returned 0 and the next inspection yields the
\* same batch again, the run neither stops nor goes on to the snapshot: the
\* same batch is handed to pip uninstall once more.
C16_NoProgressLoopsOn ==
    \A i \in Idx("uninstall") :
        ( /\ calls[i].ok
          /\ i + 1 <= Len(calls)
          /\ calls[i+1].ok
          /\ SelectSeq(calls[i+1].res, LAMBDA p : p \notin ToSet(deps))
                = calls[i].args )
        => IF i + 1 = Len(calls)
           THEN pc = "uninstall" /\ to_uninstall = calls[i].args
           ELSE /\ calls[i+2].op = "uninstall"
                /\ calls[i+2].args = calls[i].args

C16_Witness ==
    /\ pc = "uninstall"
    /\ Cardinality(Idx("uninstall")) = MaxUninstalls
    /\ \A i \in Idx("uninstall") : calls[i].ok /\ calls[i].args = to_uninstall
    /\ env = env0

\* ------------------------------------------------------------------ C17
\* The environment once the install phase is over.
AfterInstallPhase ==
    LET base == IF \E i \in Idx("venv") : calls[i].ok THEN FreshVenv ELSE env0
    IN  IF \E i \in Idx("install") : calls[i].ok
        THEN PipInstall(base, to_install)
        ELSE base

Running == pc \in {"ensure_venv", "inspect", "install", "loop", "uninstall",
                   "freeze"}

\* C17: when every pip uninstall that returns 0 has removed its batch, a
\* run ends, with the snapshot written or with exit(-1) after a failed call;
\* each successful uninstall call removed at least one package, and the
\* run holds no more uninstall calls than packages were installed.
C17_RunTerminates ==
    /\ [](Cardinality({i \in Idx("uninstall") : calls[i].ok})
            + Cardinality(env) <= Cardinality(AfterInstallPhase))
    /\ [](Cardinality(Idx("uninstall")) <= Cardinality(AfterInstallPhase))
    /\ (Running ~> pc \in {"done", "exit"})

C17_Witness ==
    /\ pc = "done"
    /\ Idx("install") # {}
    /\ Cardinality(Idx("uninstall")) = 2
    /\ Cardinality(env) + 3 = Cardinality(AfterInstallPhase)

\* ------------------------------------------------------------------ C18
\* C18: from the entry to sync_deps until it returns or exits, the list in
\* memory and the list in pypackage.json are the list sync_deps was
\* entered with.
C18_DeclaredUntouched ==
    InSync => /\ deps = entry
              /\ fileState = "ok"
              /\ fileDeps = entry

C18_Witness ==
    /\ pc = "done"
    /\ cmd.name = "add"
    /\ Len(deps) = 2
    /\ Idx("install") # {}
    /\ Idx("uninstall") # {}
    /\ \E i \in Idx("install") : calls[i].args # deps

\* ------------------------------------------------------------------ C19
\* C19: requirements.txt differs from what it was when the command started
\* only once the run has completed; after exit(-1), also when pip freeze
\* itself failed, it is as it was.
C19_LockfileOnlyOnSuccess ==
    /\ requirements # start.requirements => pc = "done"
    /\ pc = "exit" => requirements = start.requirements

C19_Witness ==
    /\ pc = "exit"
    /\ Len(calls) > 0
    /\ LastCall.op = "freeze"
    /\ ~LastCall.ok
    /\ requirements.exists
    /\ requirements.pkgs # PipFreeze(env)

\* ------------------------------------------------------------------ C20
\* C20: a command that reported an argument error issues no inspect,
\* install, uninstall or snapshot call and writes neither pypackage.json nor
\* requirements.txt.
C20_ArgErrorStops ==
    argError =>
        /\ Idx("list") \cup Idx("install") \cup Idx("uninstall")
                \cup Idx("freeze") = {}
        /\ Files = start

====
